---- MODULE Spec2Model ----
(***************************************************************************)
(* Model of the App component of steam-castle (src/App.tsx): the React     *)
(* state cells fcmToken and notificationMessage, the mount effect that     *)
(* requests the notification permission and subscribes the three           *)
(* listeners, the handlers of the listeners, the cold-start query and the  *)
(* effect cleanup.  Strings are TLA+ strings, built with \o exactly as the *)
(* template literals of the source build them.  The native messaging       *)
(* service of the Android build (MyFirebaseMessagingService.kt) is         *)
(* modelled next to it, with the notifications it has posted.              *)
(***************************************************************************)
EXTENDS Integers, Sequences, FiniteSets, TLC

VARIABLES
    phase,                \* "constructed" | "mounted" | "unmounted" (the effect's life)
    fcmToken,             \* useState('') of App.tsx:23
    notificationMessage,  \* useState('') of App.tsx:24, the StatusProjection
    listeners,            \* the listeners currently subscribed
    initialQuery,         \* getInitialNotification(): "idle" | "pending" | "done"
    permission,           \* requestUserPermission(): "idle" | "android" | "ios" | "done"
    tokenQuery,           \* getFCMToken(): "idle" | "pending" | "done"
    alerts,               \* the number of Alert dialogs shown and not yet dismissed
    denials,              \* the number of Permission Denied dialogs shown so far
    last,                 \* history: the event the most recent handler run was given
    writes,               \* history: setNotificationMessage calls made by that run
    shown,                \* history: the dialogs that run passed to Alert.alert
    threw,                \* history: whether that run ended in an exception
    overwrote,            \* history: that run set the message over a non-empty one
    probe,                \* history: one earlier delivery and the message right after it
    redelivered,          \* history: the most recent run was given the probed event again
    settled,              \* history: how the permission request settled
    unsubscribed,         \* history: the unsubscribe handles invoked so far, in order
    sdk,                  \* Build.VERSION.SDK_INT of the device
    channels,             \* the notification channels the service has created
    tray,                 \* the notifications posted by the service and still present
    received,             \* history: the message onMessageReceived was last given
    latest,               \* history: the last message given that had a notification
    posts                 \* history: the notify() calls made by the last onMessageReceived

lifecycle == <<phase, fcmToken, listeners, initialQuery, permission, tokenQuery, denials,
               settled, unsubscribed>>
observed == <<last, writes, shown, threw, overwrote>>
probed == <<probe, redelivered>>
app == <<phase, fcmToken, notificationMessage, listeners, initialQuery,
         permission, tokenQuery, alerts, denials, last, writes, shown, threw,
         overwrote, probe, redelivered, settled, unsubscribed>>
service == <<sdk, channels, tray, received, latest, posts>>
vars == <<phase, fcmToken, notificationMessage, listeners, initialQuery,
          permission, tokenQuery, alerts, denials, last, writes, shown, threw,
          overwrote, probe, redelivered, settled, unsubscribed,
          sdk, channels, tray, received, latest, posts>>

(***************************************************************************)
(* Bounds of the model.                                                    *)
(***************************************************************************)
MaxAlerts == 2

(***************************************************************************)
(* Constants of the program.                                               *)
(***************************************************************************)
\* Build.VERSION_CODES.O
VersionCodesO == 26

(***************************************************************************)
(* JavaScript values.                                                      *)
(***************************************************************************)
Undefined == [jstype |-> "undefined"]
Null == [jstype |-> "null"]
TypeError == [jstype |-> "TypeError"]
JsString(s) == [jstype |-> "string", val |-> s]
JsBoolean(b) == [jstype |-> "boolean", val |-> b]

Nullish(v) == v.jstype \in {"undefined", "null"}

\* ToBoolean, as applied by || and ?:
Truthy(v) ==
    CASE v.jstype = "string" -> v.val # ""
      [] v.jstype = "boolean" -> v.val
      [] v.jstype = "object" -> TRUE
      [] OTHER -> FALSE

\* a || b
OrElse(a, b) == IF Truthy(a) THEN a ELSE b

\* ${v} inside a template literal
TemplateString(v) ==
    CASE v.jstype = "string" -> v.val
      [] v.jstype = "boolean" -> (IF v.val THEN "true" ELSE "false")
      [] v.jstype = "null" -> "null"
      [] OTHER -> "undefined"

\* o.f of a strict member access: a TypeError when o is undefined or null
StrictGet(o, f) == IF Nullish(o) THEN TypeError ELSE o[f]

\* o?.f
OptGet(o, f) == IF Nullish(o) THEN Undefined ELSE o[f]

(***************************************************************************)
(* The inputs the two event sources deliver.                               *)
(***************************************************************************)
RemoteTitles == {Undefined, JsString(""), JsString("Hi")}
RemoteBodies == {Undefined, JsString(""), JsString("there")}

RemoteNotifications ==
    {[jstype |-> "object", title |-> t, body |-> b] :
        t \in RemoteTitles, b \in RemoteBodies}

\* a RemoteMessage, its notification part optional
RemoteMessages ==
    {[jstype |-> "object", notification |-> n] :
        n \in {Undefined} \cup RemoteNotifications}

\* the notification a Notifee event is about
LocalNotifications ==
    {Undefined,
     [jstype |-> "object", title |-> Undefined, body |-> Undefined],
     [jstype |-> "object", title |-> JsString("X"), body |-> JsString("Y")]}

PressActions ==
    {Undefined} \cup
    {[jstype |-> "object", id |-> JsString(i)] :
        i \in {"reply", "mark-as-read", "default", "snooze"}}

\* only the reply action carries an input field (App.tsx:143)
InputsOf(p) ==
    IF p # Undefined /\ p.id = JsString("reply")
    THEN {Undefined, JsString(""), JsString("ok")}
    ELSE {Undefined}

Detail(n, p, i, b) ==
    [jstype |-> "object", notification |-> n, pressAction |-> p,
     input |-> i, blocked |-> b]

\* the members of Notifee's EventType the listener can be given
EventTypes ==
    {"UNKNOWN", "DISMISSED", "PRESS", "ACTION_PRESS", "DELIVERED",
     "APP_BLOCKED", "CHANNEL_BLOCKED"}

DetailsOf(type) ==
    CASE type \in {"PRESS", "DISMISSED", "DELIVERED"} ->
            {Detail(n, Undefined, Undefined, Undefined) : n \in LocalNotifications}
      [] type = "ACTION_PRESS" ->
            UNION {{Detail(n, p, i, Undefined) : n \in LocalNotifications, i \in InputsOf(p)} :
                       p \in PressActions}
      [] type = "APP_BLOCKED" ->
            {Detail(Undefined, Undefined, Undefined, b) :
                b \in {JsBoolean(TRUE), JsBoolean(FALSE)}}
      [] OTHER -> {Detail(Undefined, Undefined, Undefined, Undefined)}

(***************************************************************************)
(* What one run of a handler does: the strings it passes to                *)
(* setNotificationMessage, the dialogs it passes to Alert.alert, and       *)
(* whether it ended in an exception.                                       *)
(***************************************************************************)
Outcome(set, show) == [set |-> set, show |-> show, threw |-> FALSE]
Thrown == [set |-> <<>>, show |-> <<>>, threw |-> TRUE]
AlertDialog(title, message) == [title |-> title, message |-> message]

\* an access that raised ends the handler before any of its calls
Guarded(accessed, outcome) ==
    IF \E v \in accessed : v = TypeError THEN Thrown ELSE outcome

\* variant of onMessage: the fields interpolated without the || '' fallback
onMessageNoFallback(remoteMessage) ==
    LET title == OptGet(remoteMessage.notification, "title")
        body == OptGet(remoteMessage.notification, "body")
    IN  Guarded({title, body},
            Outcome(
                <<"FCM Foreground: " \o TemplateString(title)
                    \o " - " \o TemplateString(body)>>,
                <<AlertDialog(
                    TemplateString(OrElse(title, JsString("New FCM Notification"))),
                    TemplateString(OrElse(body, JsString("You have a new message!"))))>>))

\* messaging().onMessage(async remoteMessage => ...)
onMessage(remoteMessage) ==
    LET title == OptGet(remoteMessage.notification, "title")
        body == OptGet(remoteMessage.notification, "body")
    IN  Guarded({title, body},
            Outcome(
                <<"FCM Foreground: " \o TemplateString(OrElse(title, JsString("")))
                    \o " - " \o TemplateString(OrElse(body, JsString("")))>>,
                <<AlertDialog(
                    TemplateString(OrElse(title, JsString("New FCM Notification"))),
                    TemplateString(OrElse(body, JsString("You have a new message!"))))>>))

\* messaging().onNotificationOpenedApp(remoteMessage => ...)
onNotificationOpenedApp(remoteMessage) ==
    LET title == OptGet(remoteMessage.notification, "title")
        body == OptGet(remoteMessage.notification, "body")
    IN  Guarded({title, body},
            Outcome(
                <<"Opened from Background/Quit (FCM): "
                    \o TemplateString(OrElse(title, JsString("")))
                    \o " - " \o TemplateString(OrElse(body, JsString("")))>>,
                <<>>))

\* variant of getInitialNotification: the message is set without the test of
\* the value the query resolved to
getInitialNotificationUntested(remoteMessage) ==
    LET notification == OptGet(remoteMessage, "notification")
        title == OptGet(notification, "title")
        body == OptGet(notification, "body")
    IN  Outcome(
            <<"Opened from Quit (FCM): "
                \o TemplateString(OrElse(title, JsString("")))
                \o " - " \o TemplateString(OrElse(body, JsString("")))>>,
            <<>>)

\* messaging().getInitialNotification().then(remoteMessage => ...)
getInitialNotification(remoteMessage) ==
    IF Truthy(remoteMessage)
    THEN LET title == OptGet(remoteMessage.notification, "title")
             body == OptGet(remoteMessage.notification, "body")
         IN  Guarded({title, body},
                 Outcome(
                     <<"Opened from Quit (FCM): "
                         \o TemplateString(OrElse(title, JsString("")))
                         \o " - " \o TemplateString(OrElse(body, JsString("")))>>,
                     <<>>))
    ELSE Outcome(<<>>, <<>>)

\* variant of onPress: the press is acknowledged with a dialog as well
onPressAcknowledged(detail) ==
    LET title == OptGet(detail.notification, "title")
        body == OptGet(detail.notification, "body")
    IN  Guarded({title, body},
            Outcome(
                <<"Notifee Pressed: " \o TemplateString(OrElse(title, JsString("")))
                    \o " - " \o TemplateString(OrElse(body, JsString("")))>>,
                <<AlertDialog("Notification Pressed",
                    TemplateString(OrElse(title, JsString(""))))>>))

\* case EventType.PRESS
onPress(detail) ==
    LET title == OptGet(detail.notification, "title")
        body == OptGet(detail.notification, "body")
    IN  Guarded({title, body},
            Outcome(
                <<"Notifee Pressed: " \o TemplateString(OrElse(title, JsString("")))
                    \o " - " \o TemplateString(OrElse(body, JsString("")))>>,
                <<>>))

\* variant of onDismissed: the body is interpolated after the title
onDismissedWithBody(detail) ==
    LET title == OptGet(detail.notification, "title")
        body == OptGet(detail.notification, "body")
    IN  Guarded({title, body},
            Outcome(
                <<"Notifee Dismissed: " \o TemplateString(OrElse(title, JsString("")))
                    \o " - " \o TemplateString(OrElse(body, JsString("")))>>,
                <<>>))

\* case EventType.DISMISSED
onDismissed(detail) ==
    LET title == OptGet(detail.notification, "title")
    IN  Guarded({title},
            Outcome(
                <<"Notifee Dismissed: " \o TemplateString(OrElse(title, JsString("")))>>,
                <<>>))

\* variant of onDelivered: the delivery is reported in the message
onDeliveredUpdating(detail) ==
    LET title == OptGet(detail.notification, "title")
    IN  Guarded({title},
            Outcome(
                <<"Notifee Delivered: " \o TemplateString(OrElse(title, JsString("")))>>,
                <<>>))

\* case EventType.DELIVERED
onDelivered(detail) == Outcome(<<>>, <<>>)

\* variant of ReplyShown: the input interpolated without the placeholder
ReplyShownRaw(replyText) == TemplateString(OrElse(replyText, JsString("")))

\* ${replyText || 'No reply'}
ReplyShown(replyText) == TemplateString(OrElse(replyText, JsString("No reply")))

\* case EventType.ACTION_PRESS
onActionPress(detail) ==
    LET title == OptGet(detail.notification, "title")
        id == OptGet(detail.pressAction, "id")
        replyText == detail.input
    IN  IF id = TypeError THEN Thrown
        ELSE IF id = JsString("reply") THEN
            Guarded({title},
                Outcome(
                    <<"Action: Reply -> \"" \o ReplyShown(replyText)
                        \o "\" from Notifee: " \o TemplateString(title)>>,
                    <<AlertDialog("Reply Action",
                        "You replied: \"" \o ReplyShown(replyText) \o "\"")>>))
        ELSE IF id = JsString("mark-as-read") THEN
            Guarded({title},
                Outcome(
                    <<"Action: Marked as Read from Notifee: " \o TemplateString(title)>>,
                    <<AlertDialog("Mark as Read Action", "Notification marked as read.")>>))
        ELSE IF id = JsString("default") THEN
            Outcome(<<>>, <<AlertDialog("Default Action", "Notification marked as read.")>>)
        ELSE Outcome(<<>>, <<>>)

\* case EventType.APP_BLOCKED
onAppBlocked(detail) ==
    Outcome(
        <<"App Notifications Blocked: " \o (IF Truthy(detail.blocked) THEN "Yes" ELSE "No")>>,
        <<>>)

\* notifee.onForegroundEvent(({type, detail}) => { switch (type) ... })
onForegroundEvent(type, detail) ==
    CASE type = "PRESS" -> onPress(detail)
      [] type = "DISMISSED" -> onDismissed(detail)
      [] type = "DELIVERED" -> onDelivered(detail)
      [] type = "ACTION_PRESS" -> onActionPress(detail)
      [] type = "APP_BLOCKED" -> onAppBlocked(detail)
      [] OTHER -> Outcome(<<>>, <<>>)

(***************************************************************************)
(* The events, as the history variables record them.                       *)
(***************************************************************************)
NoEvent == [origin |-> "none"]
RemoteEvent(origin, remoteMessage) == [origin |-> origin, message |-> remoteMessage]
LocalEvent(type, detail) == [origin |-> "onForegroundEvent", type |-> type, detail |-> detail]

\* the callback registered for the origin of ev, run on ev
Handle(ev) ==
    CASE ev.origin = "onMessage" -> onMessage(ev.message)
      [] ev.origin = "onNotificationOpenedApp" -> onNotificationOpenedApp(ev.message)
      [] ev.origin = "getInitialNotification" -> getInitialNotification(ev.message)
      [] ev.origin = "onForegroundEvent" -> onForegroundEvent(ev.type, ev.detail)

\* variant of the setter: the value given is kept only while none is set
setNotificationMessageOnce(current, set) ==
    IF set = <<>> \/ current # "" THEN current ELSE set[Len(set)]

\* variant of the setter: the value given is added to the current one
setNotificationMessageAppend(current, set) ==
    IF set = <<>> THEN current ELSE current \o set[Len(set)]

\* the state setter of useState: the value given replaces the current one
setNotificationMessage(current, set) ==
    IF set = <<>> THEN current ELSE set[Len(set)]

\* variant of Deliver: the callback is run only once every dialog is closed
DeliverAfterDismissal(ev) ==
    LET out == Handle(ev)
    IN  /\ alerts = 0
        /\ alerts + Len(out.show) <= MaxAlerts
        /\ notificationMessage' = setNotificationMessage(notificationMessage, out.set)
        /\ alerts' = alerts + Len(out.show)

\* one run of the callback on ev: its effect on the state of the program
Deliver(ev) ==
    LET out == Handle(ev)
    IN  /\ alerts + Len(out.show) <= MaxAlerts
        /\ notificationMessage' = setNotificationMessage(notificationMessage, out.set)
        /\ alerts' = alerts + Len(out.show)

\* history kept under Spec: what the run was given and what it called
Observe(ev) ==
    LET out == Handle(ev)
    IN  /\ last' = ev
        /\ writes' = Len(out.set)
        /\ shown' = out.show
        /\ threw' = out.threw
        /\ overwrote' = (out.set # <<>> /\ notificationMessage # "")
        /\ UNCHANGED probed

\* history kept under SpecIdem: any one delivery may be taken as the probe,
\* and a later run given the same event is flagged
Probe(ev) ==
    /\ redelivered' = (probe # NoEvent /\ probe.ev = ev)
    /\ IF probe = NoEvent
       THEN \/ UNCHANGED probe
            \/ probe' = [origin |-> "probe", ev |-> ev,
                         proj |-> notificationMessage', others |-> FALSE]
       ELSE probe' = [probe EXCEPT !.others = @ \/ ev # probe.ev]
    /\ UNCHANGED observed

(***************************************************************************)
(* Initial state: the component after its first render, before the effect. *)
(***************************************************************************)
Init ==
    /\ phase = "constructed"
    /\ fcmToken = ""
    /\ notificationMessage = ""
    /\ listeners = {}
    /\ initialQuery = "idle"
    /\ permission = "idle"
    /\ tokenQuery = "idle"
    /\ alerts = 0
    /\ denials = 0
    /\ last = NoEvent
    /\ writes = 0
    /\ shown = <<>>
    /\ threw = FALSE
    /\ overwrote = FALSE
    /\ probe = NoEvent
    /\ redelivered = FALSE
    /\ settled = "no"
    /\ unsubscribed = <<>>
    /\ sdk = VersionCodesO
    /\ channels = {}
    /\ tray = {}
    /\ received = NoEvent
    /\ latest = NoEvent
    /\ posts = 0

(***************************************************************************)
(* Actions.                                                                *)
(***************************************************************************)
\* the body of the effect: requestUserPermission() up to its first await,
\* the three subscriptions and the cold-start query
Mount ==
    /\ phase = "constructed"
    /\ phase' = "mounted"
    /\ \E os \in {"android", "ios"} : permission' = os
    /\ listeners' = {"onMessage", "onNotificationOpenedApp", "onForegroundEvent"}
    /\ initialQuery' = "pending"
    /\ UNCHANGED <<fcmToken, notificationMessage, tokenQuery, alerts, denials,
                   observed, probed, settled, unsubscribed>>
    /\ UNCHANGED service

\* how PermissionsAndroid.request can settle: its three results, or a rejection
AndroidSettled == {"granted", "denied", "never_ask_again", "rejected"}

\* the statuses messaging().requestPermission() resolves to
AuthorizationStatus == {"NOT_DETERMINED", "DENIED", "AUTHORIZED", "PROVISIONAL"}

\* variant of requestUserPermission: the token is requested in both branches
requestUserPermissionFallThrough(os, result) ==
    IF os = "android"
    THEN IF result = "rejected"
         THEN [getFCMToken |-> FALSE, alert |-> FALSE]
         ELSE [getFCMToken |-> TRUE, alert |-> result # "granted"]
    ELSE [getFCMToken |-> TRUE,
          alert |-> result \notin {"AUTHORIZED", "PROVISIONAL"}]

\* requestUserPermission() from the point where its request settled: whether
\* it calls getFCMToken(), and whether it shows the Permission Denied dialog
requestUserPermission(os, result) ==
    IF os = "android"
    THEN IF result = "rejected"
         THEN [getFCMToken |-> FALSE, alert |-> FALSE]
         ELSE IF result = "granted"
              THEN [getFCMToken |-> TRUE, alert |-> FALSE]
              ELSE [getFCMToken |-> FALSE, alert |-> TRUE]
    ELSE LET enabled == result = "AUTHORIZED" \/ result = "PROVISIONAL"
         IN  IF enabled
             THEN [getFCMToken |-> TRUE, alert |-> FALSE]
             ELSE [getFCMToken |-> FALSE, alert |-> TRUE]

\* the effect of requestUserPermission() on the state of the program
Settle(os, result) ==
    LET out == requestUserPermission(os, result)
        n == IF out.alert THEN 1 ELSE 0
    IN  /\ alerts + n <= MaxAlerts
        /\ alerts' = alerts + n
        /\ denials' = denials + n
        /\ tokenQuery' = IF out.getFCMToken THEN "pending" ELSE tokenQuery

\* requestUserPermission() after PermissionsAndroid.request settles
RequestAndroid ==
    /\ permission = "android"
    /\ permission' = "done"
    /\ \E granted \in AndroidSettled : Settle("android", granted)
    /\ UNCHANGED <<phase, fcmToken, notificationMessage, listeners, initialQuery,
                   observed, probed, settled, unsubscribed>>
    /\ UNCHANGED service

\* requestUserPermission() after messaging().requestPermission() resolves
RequestIos ==
    /\ permission = "ios"
    /\ permission' = "done"
    /\ \E authStatus \in AuthorizationStatus : Settle("ios", authStatus)
    /\ UNCHANGED <<phase, fcmToken, notificationMessage, listeners, initialQuery,
                   observed, probed, settled, unsubscribed>>
    /\ UNCHANGED service

\* getFCMToken() after messaging().getToken() settles
GetFCMToken ==
    /\ tokenQuery = "pending"
    /\ tokenQuery' = "done"
    /\ \E token \in {Undefined, JsString(""), JsString("fcm-token")} :
          fcmToken' = IF Truthy(token) THEN token.val ELSE fcmToken
    /\ UNCHANGED <<phase, notificationMessage, listeners, initialQuery, permission,
                   alerts, denials, observed, probed, settled, unsubscribed>>
    /\ UNCHANGED service

\* a foreground message arrives while the listener is subscribed
OnMessage ==
    /\ "onMessage" \in listeners
    /\ \E m \in RemoteMessages :
          Deliver(RemoteEvent("onMessage", m)) /\ Observe(RemoteEvent("onMessage", m))
    /\ UNCHANGED lifecycle
    /\ UNCHANGED service

\* a notification is tapped while the app is in the background
OnNotificationOpenedApp ==
    /\ "onNotificationOpenedApp" \in listeners
    /\ \E m \in RemoteMessages :
          /\ Deliver(RemoteEvent("onNotificationOpenedApp", m))
          /\ Observe(RemoteEvent("onNotificationOpenedApp", m))
    /\ UNCHANGED lifecycle
    /\ UNCHANGED service

\* the promise of getInitialNotification() resolves; nothing cancels it
GetInitialNotification ==
    /\ initialQuery = "pending"
    /\ initialQuery' = "done"
    /\ \E m \in RemoteMessages \cup {Null} :
          /\ Deliver(RemoteEvent("getInitialNotification", m))
          /\ Observe(RemoteEvent("getInitialNotification", m))
    /\ UNCHANGED <<phase, fcmToken, listeners, permission, tokenQuery, denials,
                   settled, unsubscribed>>
    /\ UNCHANGED service

\* Notifee reports an event while the listener is subscribed
OnForegroundEvent ==
    /\ "onForegroundEvent" \in listeners
    /\ \E type \in EventTypes : \E detail \in DetailsOf(type) :
          Deliver(LocalEvent(type, detail)) /\ Observe(LocalEvent(type, detail))
    /\ UNCHANGED lifecycle
    /\ UNCHANGED service

\* the user closes a dialog
DismissAlert ==
    /\ alerts > 0
    /\ alerts' = alerts - 1
    /\ UNCHANGED <<lifecycle, notificationMessage, observed, probed>>
    /\ UNCHANGED service

\* variant of Cleanup: the handle of the Notifee listener is not invoked
CleanupMessagingOnly ==
    /\ phase = "mounted"
    /\ phase' = "unmounted"
    /\ listeners' = (listeners \ {"onMessage"}) \ {"onNotificationOpenedApp"}
    /\ unsubscribed' = unsubscribed \o <<"onMessage", "onNotificationOpenedApp">>
    /\ UNCHANGED <<fcmToken, notificationMessage, initialQuery, permission,
                   tokenQuery, alerts, denials, observed, probed, settled>>
    /\ UNCHANGED service

\* the function the effect returns
Cleanup ==
    /\ phase = "mounted"
    /\ phase' = "unmounted"
    /\ listeners' = ((listeners \ {"onMessage"}) \ {"onNotificationOpenedApp"})
                        \ {"onForegroundEvent"}
    /\ unsubscribed' = unsubscribed
            \o <<"onMessage", "onNotificationOpenedApp", "onForegroundEvent">>
    /\ UNCHANGED <<fcmToken, notificationMessage, initialQuery, permission,
                   tokenQuery, alerts, denials, observed, probed, settled>>
    /\ UNCHANGED service

Next ==
    \/ Mount
    \/ RequestAndroid
    \/ RequestIos
    \/ GetFCMToken
    \/ OnMessage
    \/ OnNotificationOpenedApp
    \/ GetInitialNotification
    \/ OnForegroundEvent
    \/ DismissAlert
    \/ Cleanup

Spec == Init /\ [][Next]_vars

(***************************************************************************)
(* SpecIdem: the app in its steady state (permission granted, token        *)
(* retrieved, cold-start query resolved without a message), where the      *)
(* listeners, the dialogs and the cleanup are all that can still run; the  *)
(* probe history takes the place of the per-run history.                   *)
(***************************************************************************)
InitIdem ==
    /\ phase = "mounted"
    /\ fcmToken = "fcm-token"
    /\ notificationMessage = ""
    /\ listeners = {"onMessage", "onNotificationOpenedApp", "onForegroundEvent"}
    /\ initialQuery = "done"
    /\ permission = "done"
    /\ tokenQuery = "done"
    /\ alerts = 0
    /\ denials = 0
    /\ last = NoEvent
    /\ writes = 0
    /\ shown = <<>>
    /\ threw = FALSE
    /\ overwrote = FALSE
    /\ probe = NoEvent
    /\ redelivered = FALSE
    /\ settled = "no"
    /\ unsubscribed = <<>>
    /\ sdk = VersionCodesO
    /\ channels = {}
    /\ tray = {}
    /\ received = NoEvent
    /\ latest = NoEvent
    /\ posts = 0

\* OnMessage, with the probe history
OnMessageIdem ==
    /\ "onMessage" \in listeners
    /\ \E m \in RemoteMessages :
          Deliver(RemoteEvent("onMessage", m)) /\ Probe(RemoteEvent("onMessage", m))
    /\ UNCHANGED lifecycle
    /\ UNCHANGED service

\* OnNotificationOpenedApp, with the probe history
OnNotificationOpenedAppIdem ==
    /\ "onNotificationOpenedApp" \in listeners
    /\ \E m \in RemoteMessages :
          /\ Deliver(RemoteEvent("onNotificationOpenedApp", m))
          /\ Probe(RemoteEvent("onNotificationOpenedApp", m))
    /\ UNCHANGED lifecycle
    /\ UNCHANGED service

\* OnForegroundEvent, with the probe history
OnForegroundEventIdem ==
    /\ "onForegroundEvent" \in listeners
    /\ \E type \in EventTypes : \E detail \in DetailsOf(type) :
          Deliver(LocalEvent(type, detail)) /\ Probe(LocalEvent(type, detail))
    /\ UNCHANGED lifecycle
    /\ UNCHANGED service

NextIdem ==
    \/ OnMessageIdem
    \/ OnNotificationOpenedAppIdem
    \/ OnForegroundEventIdem
    \/ DismissAlert
    \/ Cleanup

SpecIdem == InitIdem /\ [][NextIdem]_vars

(***************************************************************************)
(* SpecPermission: the life of the component without the deliveries of the *)
(* two event sources, with the way the permission request settled kept as  *)
(* history.                                                                *)
(***************************************************************************)
\* RequestAndroid, with the history of how the request settled
RequestAndroidSettled ==
    /\ permission = "android"
    /\ permission' = "done"
    /\ \E granted \in AndroidSettled : Settle("android", granted) /\ settled' = granted
    /\ UNCHANGED <<phase, fcmToken, notificationMessage, listeners, initialQuery,
                   observed, probed, unsubscribed>>
    /\ UNCHANGED service

\* RequestIos, with the history of how the request settled
RequestIosSettled ==
    /\ permission = "ios"
    /\ permission' = "done"
    /\ \E authStatus \in AuthorizationStatus :
          Settle("ios", authStatus) /\ settled' = authStatus
    /\ UNCHANGED <<phase, fcmToken, notificationMessage, listeners, initialQuery,
                   observed, probed, unsubscribed>>
    /\ UNCHANGED service

NextPermission ==
    \/ Mount
    \/ RequestAndroidSettled
    \/ RequestIosSettled
    \/ GetFCMToken
    \/ GetInitialNotification
    \/ DismissAlert
    \/ Cleanup

SpecPermission == Init /\ [][NextPermission]_vars

(***************************************************************************)
(* The native messaging service (MyFirebaseMessagingService.kt).  Kotlin   *)
(* values: a String? is null or a string; ?: replaces null alone.          *)
(***************************************************************************)
KtNull == [kt |-> "null"]
KtString(s) == [kt |-> "String", val |-> s]

\* a ?: b
Elvis(a, b) == IF a = KtNull THEN b ELSE a.val

CHANNEL_ID == "default_channel_id"

\* the messages FirebaseMessagingService hands to onMessageReceived: the
\* notification part optional, its title and body optional, the data map
\* empty or not
ServiceTitles == {KtNull, KtString(""), KtString("Hi")}
ServiceBodies == {KtNull, KtString(""), KtString("there")}
ServiceNotifications ==
    {[title |-> t, body |-> b] : t \in ServiceTitles, b \in ServiceBodies}
DataPayloads == {{}, {<<"key", "value">>}}
ServiceMessages ==
    {[notification |-> n, data |-> d] :
        n \in {KtNull} \cup ServiceNotifications, d \in DataPayloads}

\* the API levels of the devices considered: the last one without
\* notification channels and the first one with them
SdkInts == {VersionCodesO - 1, VersionCodesO}

\* NotificationManager.notify(id, notification): the notification takes the
\* place of the one posted under the same id, if any
notify(posted, id, notification) ==
    {n \in posted : n.id # id}
        \cup {[id |-> id, title |-> notification.title, text |-> notification.text,
                extras |-> notification.extras]}

\* variant of sendNotification: each notification is posted under an id of
\* its own
sendNotificationOwnId(st, messageTitle, messageBody, data) ==
    [st EXCEPT
        !.channels = IF st.sdk >= VersionCodesO THEN @ \cup {CHANNEL_ID} ELSE @,
        !.tray = notify(@, Cardinality(@),
                    [title |-> Elvis(messageTitle, "FCM Message"),
                     text |-> Elvis(messageBody, "New Message"),
                     extras |-> data]),
        !.posts = @ + 1]

\* sendNotification(messageTitle, messageBody, data), on the state st of the
\* notification manager
sendNotification(st, messageTitle, messageBody, data) ==
    [st EXCEPT
        !.channels = IF st.sdk >= VersionCodesO THEN @ \cup {CHANNEL_ID} ELSE @,
        !.tray = notify(@, 0,
                    [title |-> Elvis(messageTitle, "FCM Message"),
                     text |-> Elvis(messageBody, "New Message"),
                     extras |-> data]),
        !.posts = @ + 1]

\* onMessageReceived(remoteMessage): the block given to
\* remoteMessage.data.isNotEmpty().let runs whatever the Boolean is, so a
\* message with a notification reaches sendNotification twice
onMessageReceived(st, remoteMessage) ==
    LET notification == remoteMessage.notification
        inDataBlock ==
            IF notification # KtNull
            THEN sendNotification(st, notification.title, notification.body,
                                  remoteMessage.data)
            ELSE st
    IN  IF notification # KtNull
        THEN sendNotification(inDataBlock, notification.title, notification.body,
                              remoteMessage.data)
        ELSE inDataBlock

\* the service is given a message
OnMessageReceived ==
    /\ \E m \in ServiceMessages :
          LET st == onMessageReceived(
                        [sdk |-> sdk, channels |-> channels, tray |-> tray, posts |-> 0], m)
          IN  /\ channels' = st.channels
              /\ tray' = st.tray
              /\ posts' = st.posts
              /\ received' = m
              /\ latest' = IF m.notification # KtNull THEN m ELSE latest
    /\ UNCHANGED <<sdk, app>>

\* a posted notification leaves the tray: it is swiped away, or tapped
\* (setAutoCancel(true))
CancelNotification ==
    /\ \E n \in tray : tray' = tray \ {n}
    /\ UNCHANGED <<sdk, channels, received, latest, posts, app>>

\* the service on a device of either API level, the component not yet
\* rendered
InitService ==
    /\ phase = "constructed"
    /\ fcmToken = ""
    /\ notificationMessage = ""
    /\ listeners = {}
    /\ initialQuery = "idle"
    /\ permission = "idle"
    /\ tokenQuery = "idle"
    /\ alerts = 0
    /\ denials = 0
    /\ last = NoEvent
    /\ writes = 0
    /\ shown = <<>>
    /\ threw = FALSE
    /\ overwrote = FALSE
    /\ probe = NoEvent
    /\ redelivered = FALSE
    /\ settled = "no"
    /\ unsubscribed = <<>>
    /\ sdk \in SdkInts
    /\ channels = {}
    /\ tray = {}
    /\ received = NoEvent
    /\ latest = NoEvent
    /\ posts = 0

NextService ==
    \/ OnMessageReceived
    \/ CancelNotification

SpecService == InitService /\ [][NextService]_vars

(***************************************************************************)
(* Vocabulary of the properties: the classification of section 4.1 of the  *)
(* specification, and the fields of an event as the properties read them.  *)
(***************************************************************************)
Kind(ev) ==
    CASE ev.origin = "onMessage" -> "foreground-remote"
      [] ev.origin = "onNotificationOpenedApp" -> "opened-from-background"
      [] ev.origin = "getInitialNotification" ->
            (IF ev.message = Null THEN "no-initial-message" ELSE "opened-from-quit")
      [] ev.origin = "onForegroundEvent" ->
            (CASE ev.type = "PRESS" -> "local-pressed"
               [] ev.type = "DISMISSED" -> "local-dismissed"
               [] ev.type = "DELIVERED" -> "local-delivered"
               [] ev.type = "APP_BLOCKED" -> "permission-blocked"
               [] ev.type = "ACTION_PRESS" ->
                     (IF ev.detail.pressAction = Undefined THEN "unrecognized"
                      ELSE IF ev.detail.pressAction.id = JsString("reply")
                          THEN "local-action-reply"
                      ELSE IF ev.detail.pressAction.id = JsString("mark-as-read")
                          THEN "local-action-mark-read"
                      ELSE IF ev.detail.pressAction.id = JsString("default")
                          THEN "local-action-default"
                      ELSE "unrecognized")
               [] OTHER -> "unrecognized")
      [] OTHER -> "none"

\* the subscriptions the effect makes
Subscriptions == {"onMessage", "onNotificationOpenedApp", "onForegroundEvent"}

\* how many times the unsubscribe handle of listener l has been invoked
Unsubscribes(l) == Cardinality({i \in DOMAIN unsubscribed : unsubscribed[i] = l})

\* the rows of the classification table other than local-delivered
ClassifiedKinds ==
    {"foreground-remote", "opened-from-background", "opened-from-quit",
     "local-pressed", "local-dismissed", "local-action-reply",
     "local-action-mark-read", "local-action-default", "permission-blocked"}

\* the kinds for which the table asks for an acknowledgment
AcknowledgedKinds ==
    {"foreground-remote", "local-action-reply", "local-action-mark-read",
     "local-action-default"}

\* the kinds whose handler sets the message
UpdatingKinds == ClassifiedKinds \ {"local-action-default"}

\* the notification an event carries, Undefined when it carries none
NotificationOf(ev) ==
    IF ev.origin = "onForegroundEvent" THEN ev.detail.notification
    ELSE IF ev.origin \in {"onMessage", "onNotificationOpenedApp", "getInitialNotification"}
            /\ ev.message # Null
        THEN ev.message.notification
    ELSE Undefined

FieldOf(ev, f) ==
    IF NotificationOf(ev) = Undefined THEN Undefined ELSE NotificationOf(ev)[f]

\* a field as text, an absent one taken as the empty string
Text(v) == IF v.jstype = "string" THEN v.val ELSE ""

\* s has sub as a substring
Contains(s, sub) ==
    \E i \in 1..(Len(s) - Len(sub) + 1) : SubSeq(s, i, i + Len(sub) - 1) = sub

\* the string the callback passes to setNotificationMessage for ev
Written(ev) == Handle(ev).set[Len(Handle(ev).set)]

(***************************************************************************)
(* Properties.                                                             *)
(***************************************************************************)

\* C1: last-write-wins.  The message starts empty; a run that sets it leaves
\* exactly the string that run was to write, whatever the message was before;
\* every other step leaves the message as it was.
LastWriteWins ==
    /\ notificationMessage = ""
    /\ [][notificationMessage' =
            IF writes' = 0 THEN notificationMessage ELSE Written(last')]_vars

\* C1 witness: the message was showing an earlier event, and now shows the
\* dismissal processed after it.
LastWriteWinsWitness ==
    /\ Kind(last) = "local-dismissed"
    /\ writes = 1
    /\ overwrote
    /\ notificationMessage = "Notifee Dismissed: X"

\* C2, as claimed: the run of every classified event other than
\* local-delivered sets the message exactly once, to the string of its kind.
EveryClassifiedEventWrites ==
    Kind(last) \in ClassifiedKinds =>
        writes = 1 /\ notificationMessage = Written(last)

\* C3: a run shows exactly one dialog when its event is of a kind the table
\* acknowledges, and none for every other kind.
AcknowledgedExactlyOnce ==
    Len(shown) = IF Kind(last) \in AcknowledgedKinds THEN 1 ELSE 0

\* C3 witness: the default action was acknowledged.
AcknowledgedExactlyOnceWitness ==
    /\ Kind(last) = "local-action-default"
    /\ shown = <<AlertDialog("Default Action", "Notification marked as read.")>>
    /\ alerts = 1

\* C4, as claimed: the message never contains the text "undefined" or "null".
NoPlaceholderInProjection ==
    /\ ~Contains(notificationMessage, "undefined")
    /\ ~Contains(notificationMessage, "null")

\* C5: after a reply action, with t the typed text or "No reply" when the
\* input is empty or absent, the message contains Reply -> "t" and the one
\* dialog shown says You replied: "t"; nothing is rendered as "".
ReplyShowsInputOrPlaceholder ==
    Kind(last) = "local-action-reply" =>
        LET typed == Text(last.detail.input)
            t == IF typed # "" THEN typed ELSE "No reply"
        IN  /\ Contains(notificationMessage, "Reply -> \"" \o t \o "\"")
            /\ ~Contains(notificationMessage, "Reply -> \"\"")
            /\ Len(shown) = 1
            /\ shown[1].message = "You replied: \"" \o t \o "\""

\* C5 witness: a reply with an empty input was processed.
ReplyShowsInputOrPlaceholderWitness ==
    /\ Kind(last) = "local-action-reply"
    /\ last.detail.input = JsString("")
    /\ shown = <<AlertDialog("Reply Action", "You replied: \"No reply\"")>>
    /\ Contains(notificationMessage, "Reply -> \"No reply\"")

\* C6: the run of an unrecognized event leaves the message as it was, shows
\* no dialog and raises nothing.
UnrecognizedIsDropped ==
    [][Kind(last') = "unrecognized" =>
            /\ notificationMessage' = notificationMessage
            /\ writes' = 0
            /\ shown' = <<>>
            /\ ~threw']_vars

\* C6 witness: an action press without a known action id was processed while
\* the message was showing an earlier event.
UnrecognizedIsDroppedWitness ==
    /\ Kind(last) = "unrecognized"
    /\ last.type = "ACTION_PRESS"
    /\ last.detail.pressAction = Undefined
    /\ notificationMessage # ""
    /\ ~threw

\* C7: the run of a DELIVERED event leaves the message as it was and shows no
\* dialog.
DeliveredChangesNothing ==
    [][Kind(last') = "local-delivered" =>
            /\ notificationMessage' = notificationMessage
            /\ shown' = <<>>]_vars

\* C7 witness: a DELIVERED event was processed while the message was showing
\* an earlier event.
DeliveredChangesNothingWitness ==
    /\ Kind(last) = "local-delivered"
    /\ notificationMessage # ""

\* C8, as claimed: after a foreground message the message is
\* "FCM Foreground: T - B", and when title and body are both present the
\* dialog shown has them as its title and body.
ForegroundMessageAsClaimed ==
    Kind(last) = "foreground-remote" =>
        LET T == FieldOf(last, "title")
            B == FieldOf(last, "body")
        IN  /\ notificationMessage = "FCM Foreground: " \o Text(T) \o " - " \o Text(B)
            /\ T.jstype = "string" /\ B.jstype = "string" =>
                    shown = <<AlertDialog(T.val, B.val)>>

\* C8, amended: the same, the dialog having title T and body B when both are
\* non-empty.
ForegroundMessage ==
    Kind(last) = "foreground-remote" =>
        LET T == FieldOf(last, "title")
            B == FieldOf(last, "body")
        IN  /\ notificationMessage = "FCM Foreground: " \o Text(T) \o " - " \o Text(B)
            /\ ~Contains(notificationMessage, "undefined")
            /\ ~Contains(notificationMessage, "null")
            /\ Text(T) # "" /\ Text(B) # "" =>
                    shown = <<AlertDialog(Text(T), Text(B))>>

\* C8 witness: the message of scenario 1 was processed.
ForegroundMessageWitness ==
    /\ Kind(last) = "foreground-remote"
    /\ notificationMessage = "FCM Foreground: Hi - there"
    /\ shown = <<AlertDialog("Hi", "there")>>

\* C9: after a DISMISSED event the message is "Notifee Dismissed: " followed
\* by the title alone, and no dialog was shown.
DismissedShowsTitleOnly ==
    Kind(last) = "local-dismissed" =>
        /\ notificationMessage = "Notifee Dismissed: " \o Text(FieldOf(last, "title"))
        /\ shown = <<>>

\* C9 witness: a notification with title X and a body was dismissed.
DismissedShowsTitleOnlyWitness ==
    /\ Kind(last) = "local-dismissed"
    /\ FieldOf(last, "body") = JsString("Y")
    /\ notificationMessage = "Notifee Dismissed: X"

\* C10, as claimed: whenever an event is delivered again, the message right
\* after is the message right after its earlier delivery.
SameEventSameProjection ==
    redelivered => notificationMessage = probe.proj

\* C10, amended: the same for the events whose handler sets the message.
UpdatingEventSameProjection ==
    redelivered /\ Kind(probe.ev) \in UpdatingKinds =>
        notificationMessage = probe.proj

\* C10 witness: a pressed notification was delivered, then other events, then
\* the same pressed notification again.
UpdatingEventSameProjectionWitness ==
    /\ redelivered
    /\ probe.others
    /\ Kind(probe.ev) = "local-pressed"
    /\ notificationMessage = "Notifee Pressed: X - Y"

\* C11: the run of the cold-start callback sets the message, to
\* "Opened from Quit (FCM): T - B", exactly when the query resolved to a
\* message; when it resolved to none the message is left as it was; in both
\* cases no dialog is shown.
ColdStartWritesIffMessage ==
    [][initialQuery = "pending" /\ initialQuery' = "done" =>
            /\ last'.origin = "getInitialNotification"
            /\ shown' = <<>>
            /\ alerts' = alerts
            /\ IF last'.message = Null
               THEN writes' = 0 /\ notificationMessage' = notificationMessage
               ELSE /\ writes' = 1
                    /\ notificationMessage' =
                          "Opened from Quit (FCM): " \o Text(FieldOf(last', "title"))
                              \o " - " \o Text(FieldOf(last', "body"))]_vars

\* C11 witness: the query resolved to no message while the message was
\* showing an earlier event, and the message still shows that event.
ColdStartWritesIffMessageWitness ==
    /\ last.origin = "getInitialNotification"
    /\ last.message = Null
    /\ initialQuery = "done"
    /\ writes = 0
    /\ notificationMessage = "Notifee Pressed: X - Y"

\* C12: dialogs are fire-and-forget.  While a dialog is open, every event of
\* either source whose listener is subscribed can be processed at once: its
\* run is enabled, sets the message as it would with no dialog open, and
\* leaves the open dialogs open.  (An event that shows a dialog is considered
\* while the model has room for one more dialog.)
ProcessedWhileAlertOpen ==
    alerts > 0 =>
        /\ \A m \in RemoteMessages :
              /\ "onMessage" \in listeners
              /\ alerts + Len(onMessage(m).show) <= MaxAlerts
              => ENABLED (/\ Deliver(RemoteEvent("onMessage", m))
                          /\ notificationMessage' # notificationMessage
                                \/ notificationMessage = onMessage(m).set[1]
                          /\ alerts' > alerts)
        /\ \A m \in RemoteMessages :
              "onNotificationOpenedApp" \in listeners
              => ENABLED (/\ Deliver(RemoteEvent("onNotificationOpenedApp", m))
                          /\ notificationMessage' # notificationMessage
                                \/ notificationMessage = onNotificationOpenedApp(m).set[1]
                          /\ alerts' = alerts)
        /\ \A type \in EventTypes : \A detail \in DetailsOf(type) :
              /\ "onForegroundEvent" \in listeners
              /\ alerts + Len(onForegroundEvent(type, detail).show) <= MaxAlerts
              => ENABLED (/\ Deliver(LocalEvent(type, detail))
                          /\ alerts' >= alerts)

\* C12 witness: a foreground message was processed, and acknowledged with a
\* second dialog, while an earlier dialog was still open.
ProcessedWhileAlertOpenWitness ==
    /\ alerts = 2
    /\ Kind(last) = "foreground-remote"
    /\ shown = <<AlertDialog("Hi", "there")>>
    /\ notificationMessage = "FCM Foreground: Hi - there"

\* C13, as claimed: once the permission request has completed with a result
\* other than granted (Android) or authorized, exactly one Permission Denied
\* dialog has been shown, the request is not pending again, getFCMToken() has
\* not been called and the token is empty; getFCMToken() is called only
\* after the result granted or authorized.
DeniedUnlessAuthorized ==
    /\ settled \notin {"no", "rejected", "granted", "AUTHORIZED"} =>
            /\ denials = 1
            /\ permission = "done"
            /\ tokenQuery = "idle"
            /\ fcmToken = ""
    /\ tokenQuery # "idle" => settled \in {"granted", "AUTHORIZED"}

\* C13, amended: the same with the provisional authorization among the
\* granted results; a request that failed shows no dialog and calls
\* getFCMToken() no more than a denied one does.
DeniedUnlessEnabled ==
    /\ settled \notin {"no", "rejected", "granted", "AUTHORIZED", "PROVISIONAL"} =>
            /\ denials = 1
            /\ permission = "done"
            /\ tokenQuery = "idle"
            /\ fcmToken = ""
    /\ settled = "rejected" =>
            /\ denials = 0
            /\ permission = "done"
            /\ tokenQuery = "idle"
            /\ fcmToken = ""
    /\ tokenQuery # "idle" => settled \in {"granted", "AUTHORIZED", "PROVISIONAL"}
    /\ denials <= 1

\* C13 witness: the request was answered with never_ask_again, the dialog
\* was shown and closed, and the component was unmounted, the token empty.
DeniedUnlessEnabledWitness ==
    /\ settled = "never_ask_again"
    /\ denials = 1
    /\ alerts = 0
    /\ phase = "unmounted"
    /\ tokenQuery = "idle"
    /\ fcmToken = ""

\* C14: before the effect runs nothing is subscribed; while the component is
\* mounted the three listeners are subscribed and no unsubscribe handle has
\* been invoked; once the cleanup has run each of the three handles has
\* been invoked exactly once and no listener is subscribed.
EachHandleInvokedOnce ==
    /\ phase = "constructed" => listeners = {} /\ unsubscribed = <<>>
    /\ phase = "mounted" => listeners = Subscriptions /\ unsubscribed = <<>>
    /\ phase = "unmounted" =>
            /\ listeners = {}
            /\ \A l \in Subscriptions : Unsubscribes(l) = 1
            /\ Len(unsubscribed) = Cardinality(Subscriptions)

\* C14 witness: the cleanup has run after a Notifee event was processed.
EachHandleInvokedOnceWitness ==
    /\ phase = "unmounted"
    /\ last.origin = "onForegroundEvent"
    /\ listeners = {}
    /\ Unsubscribes("onForegroundEvent") = 1

\* C15, as claimed: once the cleanup has run, no step sets the message: the
\* message keeps its value, and the cold-start callback, when it runs, does
\* not call setNotificationMessage.
NoWriteAfterCleanup ==
    [][phase = "unmounted" =>
            /\ notificationMessage' = notificationMessage
            /\ initialQuery' # initialQuery => writes' = 0]_vars

\* C16: a message without a notification part makes the service post
\* nothing; at most one notification posted by the service is present, its
\* id is 0, and its title and text are those of the last message received
\* with a notification part, "FCM Message" and "New Message" standing for a
\* title and a body that are null.
AtMostOnePosted ==
    /\ received # NoEvent /\ received.notification = KtNull => posts = 0
    /\ Cardinality(tray) <= 1
    /\ \A n \in tray :
          /\ n.id = 0
          /\ latest # NoEvent
          /\ n.title = IF latest.notification.title = KtNull THEN "FCM Message"
                       ELSE latest.notification.title.val
          /\ n.text = IF latest.notification.body = KtNull THEN "New Message"
                      ELSE latest.notification.body.val

\* C16 witness: a message with a body and no title was posted, and a
\* data-only message received after it has left that notification alone.
AtMostOnePostedWitness ==
    /\ received = [notification |-> KtNull, data |-> {<<"key", "value">>}]
    /\ posts = 0
    /\ latest # NoEvent
    /\ latest.notification = [title |-> KtNull, body |-> KtString("there")]
    /\ \E n \in tray : n.id = 0 /\ n.title = "FCM Message" /\ n.text = "there"

====
